---- MODULE Spec2Model ----
(***************************************************************************)
(* PillPal (studio-main): the client-side dose schedule, the countdown     *)
(* engine (NextDoseCountdown), the reminder scheduler (ReminderHandler)    *)
(* the page state they feed (Home.reminderTrigger) and the advertisement   *)
(* banner of PillRecognizer that this state re-shows; the daily tracker    *)
(* (MedicationTracker) and the recognition and food-alternatives requests  *)
(* of PillRecognizer.                                                      *)
(*                                                                         *)
(* Time.  A JavaScript Date is modelled by its getTime() value: an integer *)
(* number of milliseconds, counted from local midnight of day 0.  The      *)
(* local time zone is taken to have no daylight-saving shift, so every     *)
(* calendar day is 24 hours long and setHours/setDate are plain            *)
(* arithmetic on that integer.  The wall clock is non-decreasing.          *)
(***************************************************************************)
EXTENDS Integers, Sequences, FiniteSets

VARIABLES
    now,            \* the wall clock, what `new Date()` returns
    doseArg,        \* Dose Schedule probe: the argument of getNextDoseDate
    doseResult,     \* Dose Schedule probe: its result, NULL before the call
    fmtArg,         \* formatTimeLeft probe: its argument
    fmtResult,      \* formatTimeLeft probe: the text returned, << >> before the call
    \* MedicationTracker (medication-tracker.tsx)
    takenDoses,     \* useState({morning: false, noon: false, evening: false}), line 12
    mtOps,          \* the buttons pressed so far, oldest first
    mtHistory,      \* the takenDoses of every render so far, oldest first
    \* ReminderHandler (reminder-handler.tsx)
    rhPhase,        \* "init" (not yet mounted), "mounted", "unmounted"
    hasCallback,    \* whether the onReminder prop is supplied
    mountNow,       \* `now` of scheduleReminders (line 37), NULL before the mount
    slotReads,      \* what `new Date()` of line 40 returned for each slot, in loop order
    timers,         \* the `timers` array: one entry per setTimeout made, in push order
    pending,        \* the slots whose timeout is still pending in the browser
    fires,          \* per slot, how many times its timeout callback has run
    manualFires,    \* how many times triggerTestReminder has run
    toastCount,     \* toast() calls
    soundCalls,     \* playNotificationSound() calls
    soundErrors,    \* failures caught and logged by playNotificationSound (line 47)
    uncaught,       \* exceptions that left a reminder callback
    callbackCount,  \* onReminder() calls
    \* Home (page.tsx)
    reminderTrigger, \* useState(0), line 17: the value of the latest render
    triggerQueue,   \* `prev => prev + 1` updates queued by handleReminder, not yet rendered
    \* PillRecognizer (the banner state of src/unnamed/part_000)
    bnPhase,        \* "init", "mounted", "unmounted"
    showBanner,     \* useState(true), line 30
    bnSeenTrigger,  \* the reminderTrigger the effect of lines 43-52 last ran with
    bnInitTimer,    \* due time of the timeout of line 36, NULL when not pending
    bnTrigTimer,    \* due time of the timeout of line 47, NULL when not pending
    bnReshownAt,    \* when lines 43-52 last made a hidden banner visible; NULL once hidden
    \* PillRecognizer (the recognition and food-alternatives state of part_000)
    pickerOpen,     \* the file dialog of the hidden input (line 181) is open
    fileCount,      \* files chosen so far; a file is named by its number
    readers,        \* files whose FileReader (lines 100-106) has not finished
    recRequests,    \* files whose handlePillRecognition call (line 113) is outstanding
    imagePreview,   \* useState(null), line 22: the file shown, NULL before
    pillInfo,       \* useState(null), line 23: NoPillInfo or the result of a recognition
    isRecognitionLoading, \* useState(false), line 27
    recToast,       \* description of the latest toast of line 116, NoToast before
    recToastCount,  \* toasts of line 116
    selectedPill,   \* useState(null), line 24
    isModalOpen,    \* useState(false), line 29
    isAlternativesLoading, \* useState(false), line 28
    detailedAlternatives,  \* useState(null), line 25: NoAlternatives or a response
    altCount,       \* getFoodAlternatives calls made so far; a call is named by its number
    altRequests,    \* the outstanding getFoodAlternatives calls
    altToastCount,  \* toasts of line 136
    \* NextDoseCountdown (next-dose-countdown.tsx)
    cdPhase,        \* "init", "rendered" (first render done, effects not yet run),
                    \* "mounted", "unmounted"
    nextDose,       \* useState<Date | null>(null), line 40
    timeLeft,       \* useState<number>(0), line 41
    cdEffectDue,    \* the effect of lines 50-69 has to run (again): nextDose was set
    cdInterval,     \* the interval of line 66: the nextDose its closure holds and the
                    \* time of its next call; NoInterval when none is active
    cdEvalNow,      \* `now` of the latest calculateTimeLeft (line 55), NULL before
    cdEvalTarget,   \* the nextDose its closure held (line 56), NULL before
    cdStreak        \* evaluations in a row that kept the target, counted up to StreakCap

doseVars == <<doseArg, doseResult>>
fmtVars == <<fmtArg, fmtResult>>
mtVars == <<takenDoses, mtOps, mtHistory>>
prVars == <<pickerOpen, fileCount, readers, recRequests, imagePreview, pillInfo,
           isRecognitionLoading, recToast, recToastCount, selectedPill, isModalOpen,
           isAlternativesLoading, detailedAlternatives, altCount, altRequests, altToastCount>>
rhVars == <<rhPhase, hasCallback, mountNow, slotReads, timers, pending, fires, manualFires,
            toastCount, soundCalls, soundErrors, uncaught, callbackCount>>
pageVars == <<reminderTrigger, triggerQueue>>
bnVars == <<bnPhase, showBanner, bnSeenTrigger, bnInitTimer, bnTrigTimer, bnReshownAt>>
cdVars == <<cdPhase, nextDose, timeLeft, cdEffectDue, cdInterval, cdEvalNow, cdEvalTarget,
           cdStreak>>
vars == <<now, doseVars, fmtVars, mtVars, prVars, rhVars, pageVars, bnVars, cdVars>>

NULL == -1

----------------------------------------------------------------------------
(* Calendar arithmetic of Date *)

MsPerHour == 60 * 60 * 1000
MsPerDay  == 24 * MsPerHour

\* setInterval(calculateTimeLeft, 1000)
TickPeriod == 1000

\* Number of the last calendar day on which the clock is sampled (days 0..MaxDay).
MaxDay == 1

Hours == 0 .. 23

\* Sampled positions inside an hour: the full hour itself, one millisecond and
\* one second after it, and the last millisecond before the next full hour.
Offsets == {0, 1, TickPeriod, MsPerHour - 1}

\* The instants at which the pure functions are evaluated.
Instants == { d * MsPerDay + h * MsPerHour + o : d \in 0 .. MaxDay, h \in Hours, o \in Offsets }

\* The instants at which the running page samples the wall clock: around every
\* dose hour, between two dose hours, and around midnight.
ClockHours == {0, 8, 9, 12, 18, 19, 23}
ClockOffsets == {0, 1, MsPerHour - 1}
ClockInstants ==
    { d * MsPerDay + h * MsPerHour + o : d \in 0 .. MaxDay, h \in ClockHours, o \in ClockOffsets }

\* Local midnight of the calendar day that holds instant t.
DayStart(t) == (t \div MsPerDay) * MsPerDay

\* Date.prototype.setHours(hour, 0, 0, 0): same calendar day, the given hour,
\* minutes, seconds and milliseconds zeroed.
SetHoursKeepMinutes(t, hour) == DayStart(t) + hour * MsPerHour + (t % MsPerHour)
SetHours(t, hour) == DayStart(t) + hour * MsPerHour

\* date.setDate(date.getDate() + 1): the same time of day on the next calendar day.
SetDateNextDay(t) == t + MsPerDay

----------------------------------------------------------------------------
(* Dose Schedule: next-dose-countdown.tsx *)

DOSE_TIMES_IN_HOURS == <<8, 12, 18>>

\* The test of line 14: doseTime.getTime() > now.getTime()
DoseIsLaterOrNow(doseTime, t) == doseTime >= t
DoseIsLater(doseTime, t) == doseTime > t

\* The for loop of lines 11-17 from index i on, then the fall-through of lines 19-22.
RECURSIVE NextDoseFrom(_, _)
NextDoseFrom(t, i) ==
    IF i > Len(DOSE_TIMES_IN_HOURS)
    THEN SetHours(SetDateNextDay(t), DOSE_TIMES_IN_HOURS[1])
    ELSE LET doseTime == SetHours(t, DOSE_TIMES_IN_HOURS[i])
         IN  IF DoseIsLater(doseTime, t) THEN doseTime ELSE NextDoseFrom(t, i + 1)

getNextDoseDate(t) == NextDoseFrom(t, 1)

----------------------------------------------------------------------------
(* Reminder Scheduler: reminder-handler.tsx, utils/audio.ts, app/page.tsx *)

\* How many times the test button is pressed at most.
MaxManual == 2

\* Object.entries(REMINDER_TIMES) visits the keys in insertion order.
SlotNames == <<"morning", "noon", "evening">>
REMINDER_TIMES == [morning |-> 8, noon |-> 12, evening |-> 18]
TIME_NAMES == [morning |-> "achim", noon |-> "jeomsim", evening |-> "jeonyeok"]

\* The wall clock may move on by a millisecond between two reads made by the
\* same synchronous handler.
ClockReads(t) == {t} \cup ({t + 1} \cap ClockInstants)

\* SlotTimerNextDay moves a slot whose instant of today is not ahead of `mnow`
\* to the same hour of the next day.
SlotTimerNextDay(name, read, mnow) ==
    LET today        == SetHours(read, REMINDER_TIMES[name])
        reminderTime == IF today > mnow THEN today ELSE today + MsPerDay
        timeoutMs    == reminderTime - mnow
    IN  [name |-> name, readAt |-> read, instant |-> reminderTime,
         delay |-> timeoutMs, due |-> read + timeoutMs]

\* One pass of the loop body of scheduleReminders, lines 39-63, for the slot
\* `name`: `read` is what `new Date()` of line 40 returns, `mnow` is `now` of
\* line 37.  setTimeout counts its delay from the moment it is called.
SlotTimer(name, read, mnow) ==
    LET reminderTime == SetHours(read, REMINDER_TIMES[name])
        timeoutMs    == reminderTime - mnow
    IN  [name |-> name, readAt |-> read, instant |-> reminderTime,
         delay |-> timeoutMs, due |-> read + timeoutMs]

\* The test of line 48.
ShouldArmNotPast(t) == t.delay >= 0
ShouldArm(t) == t.delay > 0

\* scheduleReminders, lines 36-65: the timers pushed, in order.
scheduleReminders(mnow, reads) ==
    SelectSeq([i \in 1 .. Len(SlotNames) |-> SlotTimer(SlotNames[i], reads[i], mnow)],
              ShouldArm)

TimerNames(ts) == { ts[i].name : i \in 1 .. Len(ts) }
TimerOf(ts, name) == ts[CHOOSE i \in 1 .. Len(ts) : ts[i].name = name]

\* The cleanup of lines 69-72: timers.forEach(clearTimeout).
ClearNothing(ts, pend) == pend
ClearAllTimers(ts, pend) == pend \ TimerNames(ts)

\* What a setTimeout callback leaves of the pending timeouts: a timeout is one-shot.
AfterFireRepeating(pend, name) == pend
AfterFire(pend, name) == pend \ {name}

\* playNotificationSound, audio.ts lines 2-49.  `outcome` is what the Web Audio
\* calls do: "played", "unsupported" (no AudioContext, line 4) or "failed" (one
\* of them throws).  The try/catch of lines 2 and 46 logs a failure and returns.
AudioOutcomes == {"played", "unsupported", "failed"}
playNotificationSoundNoCatch(outcome) ==
    [logged |-> FALSE, threw |-> outcome = "failed"]
playNotificationSound(outcome) ==
    [logged |-> outcome = "failed", threw |-> FALSE]

\* The updater of page.tsx line 25, `prev => prev + 1`; TriggerUpdaterStale is
\* `reminderTrigger + 1` read from the closure of the render that mounted
\* ReminderHandler, in which reminderTrigger is 0.
TriggerUpdaterStale(prev) == 0 + 1
TriggerUpdater(prev) == prev + 1

\* handleReminder, page.tsx lines 24-26: setReminderTrigger queues one updater;
\* React applies the queued updaters, in order, in its next render of Home.
handleReminder(queue) == queue + 1

RECURSIVE ApplyUpdates(_, _)
ApplyUpdates(value, n) ==
    IF n = 0 THEN value ELSE ApplyUpdates(TriggerUpdater(value), n - 1)

\* FireEffects with the onReminder call of lines 58-60 left out.
FireEffectsWithoutCallback(description, outcome) ==
    LET sound == playNotificationSound(outcome)
    IN  /\ toastCount' = toastCount + 1
        /\ soundCalls' = soundCalls + 1
        /\ soundErrors' = soundErrors + (IF sound.logged THEN 1 ELSE 0)
        /\ uncaught' = uncaught + (IF sound.threw THEN 1 ELSE 0)
        /\ reminderTrigger' = reminderTrigger
        /\ UNCHANGED <<callbackCount, triggerQueue>>

\* The side effects shared by the timeout callback (lines 50-60) and
\* triggerTestReminder (lines 77-86): toast, sound, then onReminder if supplied.
\* An exception leaving playNotificationSound would end the callback there.
FireEffects(description, outcome) ==
    LET sound == playNotificationSound(outcome)
    IN  /\ toastCount' = toastCount + 1
        /\ soundCalls' = soundCalls + 1
        /\ soundErrors' = soundErrors + (IF sound.logged THEN 1 ELSE 0)
        /\ uncaught' = uncaught + (IF sound.threw THEN 1 ELSE 0)
        /\ IF hasCallback /\ ~sound.threw
           THEN /\ callbackCount' = callbackCount + 1
                /\ triggerQueue' = handleReminder(triggerQueue)
           ELSE UNCHANGED <<callbackCount, triggerQueue>>
        /\ reminderTrigger' = reminderTrigger

\* Mount: the effect of lines 30-74 runs scheduleReminders once.
RhMount ==
    /\ rhPhase = "init"
    /\ \E r1 \in ClockReads(now) : \E r2 \in ClockReads(r1) : \E r3 \in ClockReads(r2) :
        LET armed == scheduleReminders(now, <<r1, r2, r3>>)
        IN  /\ mountNow' = now
            /\ slotReads' = <<r1, r2, r3>>
            /\ timers' = armed
            /\ pending' = TimerNames(armed)
            /\ now' = r3
    /\ rhPhase' = "mounted"
    /\ UNCHANGED <<doseVars, fmtVars, mtVars, hasCallback, fires, manualFires, toastCount,
                   soundCalls, soundErrors, uncaught, callbackCount, pageVars, prVars, bnVars, cdVars>>

\* The timeout of slot `name` elapses and its callback runs (lines 49-61).
TimerFire(name) ==
    /\ name \in pending
    /\ now >= TimerOf(timers, name).due
    /\ \E outcome \in AudioOutcomes : FireEffects(TIME_NAMES[name], outcome)
    /\ pending' = AfterFire(pending, name)
    /\ fires' = [fires EXCEPT ![name] = @ + 1]
    /\ UNCHANGED <<now, doseVars, fmtVars, mtVars, rhPhase, hasCallback, mountNow, slotReads, timers,
                   manualFires, prVars, bnVars, cdVars>>

\* What triggerTestReminder leaves of the pending timeouts: it touches none.
AfterManualConsuming(pend, ts) ==
    IF pend = {} THEN pend
    ELSE pend \ {ts[CHOOSE i \in 1 .. Len(ts) :
                        ts[i].name \in pend /\ \A j \in 1 .. i - 1 : ts[j].name \notin pend].name}
AfterManual(pend, ts) == pend

\* The test button: triggerTestReminder, lines 76-87.
ManualTrigger ==
    /\ rhPhase = "mounted"
    /\ manualFires < MaxManual
    /\ \E outcome \in AudioOutcomes : FireEffects("test", outcome)
    /\ manualFires' = manualFires + 1
    /\ pending' = AfterManual(pending, timers)
    /\ UNCHANGED <<now, doseVars, fmtVars, mtVars, rhPhase, hasCallback, mountNow, slotReads, timers,
                   fires, prVars, bnVars, cdVars>>

\* Unmount: the cleanup returned by the effect, lines 69-72.
RhUnmount ==
    /\ rhPhase = "mounted"
    /\ rhPhase' = "unmounted"
    /\ pending' = ClearAllTimers(timers, pending)
    /\ UNCHANGED <<now, doseVars, fmtVars, mtVars, hasCallback, mountNow, slotReads, timers, fires, manualFires,
                   toastCount, soundCalls, soundErrors, uncaught,
                   callbackCount, pageVars, prVars, bnVars, cdVars>>

\* Home renders again (page.tsx lines 13-17): the queued updaters are applied
\* and PillRecognizer receives the new reminderTrigger (line 44).
PageRender ==
    /\ triggerQueue > 0
    /\ reminderTrigger' = ApplyUpdates(reminderTrigger, triggerQueue)
    /\ triggerQueue' = 0
    /\ UNCHANGED <<now, doseVars, fmtVars, mtVars, prVars, rhVars, bnVars, cdVars>>

\* Time passes: the wall clock reaches the next sampled instant.
AdvanceClock ==
    /\ \E t \in ClockInstants :
        /\ t > now
        /\ \A u \in ClockInstants : u > now => t <= u
        /\ now' = t
    /\ UNCHANGED <<doseVars, fmtVars, mtVars, prVars, rhVars, pageVars, bnVars, cdVars>>

----------------------------------------------------------------------------
(* Countdown Engine: NextDoseCountdown, next-dose-countdown.tsx lines 39-69 *)

\* No interval is active.
NoInterval == [target |-> NULL, due |-> NULL]

\* Where the ghost counter cdStreak stops counting.
StreakCap == 2

\* calculateTimeLeft, lines 54-63, run at instant t by a closure holding `target`:
\* the value given to setTimeLeft, whether setNextDose is called, and with what.
calculateTimeLeftAdvancing(target, t) ==
    [timeLeft |-> target - t, rollover |-> TRUE, nextDose |-> getNextDoseDate(target)]
calculateTimeLeftClamped(target, t) ==
    LET difference == target - t
    IN  [timeLeft |-> IF difference > 0 THEN difference ELSE 0,
         rollover |-> difference <= 0,
         nextDose |-> IF difference <= 0 THEN getNextDoseDate(t) ELSE target]
calculateTimeLeftStrict(target, t) ==
    LET difference == target - t
    IN  [timeLeft |-> difference,
         rollover |-> difference < 0,
         nextDose |-> IF difference < 0 THEN getNextDoseDate(t) ELSE target]
calculateTimeLeftFromTarget(target, t) ==
    LET difference == target - t
    IN  [timeLeft |-> difference,
         rollover |-> difference <= 0,
         nextDose |-> IF difference <= 0 THEN getNextDoseDate(target) ELSE target]
calculateTimeLeft(target, t) ==
    LET difference == target - t
    IN  [timeLeft |-> difference,
         rollover |-> difference <= 0,
         nextDose |-> IF difference <= 0 THEN getNextDoseDate(t) ELSE target]

\* The state after one calculateTimeLeft and the re-render it causes.  A Date
\* given to setNextDose is a new object, so the effect of lines 50-69 runs again
\* whenever setNextDose was called.
Evaluate(target) ==
    LET r == calculateTimeLeft(target, now)
    IN  /\ timeLeft' = r.timeLeft
        /\ cdEvalNow' = now
        /\ cdEvalTarget' = target
        /\ IF r.rollover
           THEN /\ nextDose' = r.nextDose
                /\ cdEffectDue' = TRUE
                /\ cdStreak' = 0
           ELSE /\ nextDose' = nextDose
                /\ cdStreak' = (IF cdStreak < StreakCap THEN cdStreak + 1 ELSE cdStreak)

\* First render: the initial state of lines 40-41 is shown.
CdMount ==
    /\ cdPhase = "init"
    /\ cdPhase' = "rendered"
    /\ nextDose' = NULL
    /\ timeLeft' = 0
    /\ UNCHANGED <<now, doseVars, fmtVars, mtVars, prVars, rhVars, pageVars, bnVars, cdEffectDue, cdInterval, cdEvalNow,
                   cdEvalTarget, cdStreak>>

\* The effects of the first render: lines 43-48 set nextDose from the clock,
\* lines 50-52 return at once because nextDose is still null.
CdMountEffects ==
    /\ cdPhase = "rendered"
    /\ cdPhase' = "mounted"
    /\ nextDose' = getNextDoseDate(now)
    /\ cdEffectDue' = TRUE
    /\ UNCHANGED <<now, doseVars, fmtVars, mtVars, prVars, rhVars, pageVars, bnVars, timeLeft, cdInterval, cdEvalNow,
                   cdEvalTarget, cdStreak>>

\* The effect of lines 50-69 runs for a changed nextDose: the cleanup of the
\* previous run clears its interval (line 68), then calculateTimeLeft runs once
\* (line 65) and a new interval is started (line 66).
CdRunEffect ==
    /\ cdPhase = "mounted"
    /\ cdEffectDue
    /\ IF calculateTimeLeft(nextDose, now).rollover
       THEN Evaluate(nextDose)
       ELSE Evaluate(nextDose) /\ cdEffectDue' = FALSE
    /\ cdInterval' = [target |-> nextDose, due |-> now + TickPeriod]
    /\ UNCHANGED <<now, doseVars, fmtVars, mtVars, prVars, rhVars, pageVars, bnVars, cdPhase>>

\* The interval elapses: calculateTimeLeft runs with the nextDose of its closure.
CdTick ==
    /\ cdInterval # NoInterval
    /\ now >= cdInterval.due
    /\ IF calculateTimeLeft(cdInterval.target, now).rollover
       THEN Evaluate(cdInterval.target)
       ELSE Evaluate(cdInterval.target) /\ cdEffectDue' = cdEffectDue
    /\ cdInterval' = [cdInterval EXCEPT !.due = now + TickPeriod]
    /\ UNCHANGED <<now, doseVars, fmtVars, mtVars, prVars, rhVars, pageVars, bnVars, cdPhase>>

\* One period of the interval passes on the wall clock, starting within the
\* first second of a sampled hour.
AdvanceTick ==
    /\ now % MsPerHour < TickPeriod
    /\ now' = now + TickPeriod
    /\ UNCHANGED <<doseVars, fmtVars, mtVars, prVars, rhVars, pageVars, bnVars, cdVars>>

\* Unmount: the cleanup of line 68 clears the interval; no effect runs any more.
CdUnmount ==
    /\ cdPhase \in {"rendered", "mounted"}
    /\ cdPhase' = "unmounted"
    /\ cdInterval' = NoInterval
    /\ cdEffectDue' = FALSE
    /\ UNCHANGED <<now, doseVars, fmtVars, mtVars, prVars, rhVars, pageVars, bnVars, nextDose, timeLeft, cdEvalNow,
                   cdEvalTarget, cdStreak>>

----------------------------------------------------------------------------
(* Display text: formatTimeLeft, next-dose-countdown.tsx lines 25-36.  A
   JavaScript string is modelled as the sequence of its characters. *)

DigitChars == <<"0", "1", "2", "3", "4", "5", "6", "7", "8", "9">>

\* Number.prototype.toString() of a non-negative integer.
RECURSIVE ToString(_)
ToString(num) ==
    IF num < 10 THEN <<DigitChars[num + 1]>>
    ELSE ToString(num \div 10) \o <<DigitChars[(num % 10) + 1]>>

\* String.prototype.padStart(2, '0'), line 33; PadStartNone pads nothing.
PadStartNone(str) == str
PadStart(str) == IF Len(str) < 2 THEN <<"0">> \o str ELSE str

pad(num) == PadStart(ToString(num))

formatTimeLeft(milliseconds) ==
    IF milliseconds <= 0 THEN <<"0", "0", ":", "0", "0", ":", "0", "0">>
    ELSE LET totalSeconds == milliseconds \div 1000
             hours == totalSeconds \div 3600
             minutes == (totalSeconds % 3600) \div 60
             seconds == totalSeconds % 60
         IN  pad(hours) \o <<":">> \o pad(minutes) \o <<":">> \o pad(seconds)

----------------------------------------------------------------------------
(* Daily medication tracking: MedicationTracker, medication-tracker.tsx lines
   9-30 and 56.  Each button press is a discrete event: React renders its
   update before the next press is handled. *)

Doses == {"morning", "noon", "evening"}
MaxClicks == 4

\* handleTakeDose, lines 18-20: the updater prev => ({...prev, [dose]: !prev[dose]});
\* handleTakeDoseAlone builds the object from the toggled slot only.
handleTakeDoseAlone(prev, dose) == [d \in Doses |-> IF d = dose THEN ~prev[d] ELSE FALSE]
handleTakeDose(prev, dose) == [prev EXCEPT ![dose] = ~prev[dose]]

\* allTaken, line 22, and handleTakeAll, lines 24-30.
allTaken(taken) == \A d \in Doses : taken[d]
handleTakeAll(taken) == [d \in Doses |-> ~allTaken(taken)]

\* A DoseButton is pressed (line 96 calls onToggle(dose)).
TakeDose(dose) ==
    /\ Len(mtOps) < MaxClicks
    /\ takenDoses' = handleTakeDose(takenDoses, dose)
    /\ mtOps' = Append(mtOps, dose)
    /\ mtHistory' = Append(mtHistory, takenDoses')
    /\ UNCHANGED <<now, doseVars, fmtVars, prVars, rhVars, pageVars, bnVars, cdVars>>

\* The check-all button is pressed (line 56).
TakeAll ==
    /\ Len(mtOps) < MaxClicks
    /\ takenDoses' = handleTakeAll(takenDoses)
    /\ mtOps' = Append(mtOps, "all")
    /\ mtHistory' = Append(mtHistory, takenDoses')
    /\ UNCHANGED <<now, doseVars, fmtVars, prVars, rhVars, pageVars, bnVars, cdVars>>

----------------------------------------------------------------------------
(* Banner Visibility Timer: PillRecognizer, src/unnamed/part_000 lines 30-52,
   164 and 178-183 *)

\* The delay of both hide timeouts, lines 38 and 49.
BannerDelay == 9000
MaxTrigger == 2

\* setTimeout(..., 9000) made at time t: the time at which it is due.
HideTimerAt(t) == t + BannerDelay

\* clearTimeout, lines 39 and 50; ClearTimeoutNothing leaves the timeout pending.
ClearTimeoutNothing(timer) == timer
ClearTimeout(timer) == NULL

\* The body of the effect of lines 43-52, run at time t with the prop `trigger`:
\* whether it calls setShowBanner(true), and the timeout it arms.
TriggerEffectUntimed(trigger, t) ==
    IF trigger > 0
    THEN [show |-> TRUE, timer |-> NULL]
    ELSE [show |-> FALSE, timer |-> NULL]
TriggerEffectSilent(trigger, t) ==
    IF trigger > 0
    THEN [show |-> FALSE, timer |-> HideTimerAt(t)]
    ELSE [show |-> FALSE, timer |-> NULL]
TriggerEffect(trigger, t) ==
    IF trigger > 0
    THEN [show |-> TRUE, timer |-> HideTimerAt(t)]
    ELSE [show |-> FALSE, timer |-> NULL]

\* Mount: the first render shows the banner (line 30); then the effect of lines
\* 34-40 arms the initial timeout and the effect of lines 43-52 runs with the
\* reminderTrigger of that render.
BnMount ==
    /\ bnPhase = "init"
    /\ bnPhase' = "mounted"
    /\ bnInitTimer' = HideTimerAt(now)
    /\ LET e == TriggerEffect(reminderTrigger, now)
       IN  /\ showBanner' = (showBanner \/ e.show)
           /\ bnTrigTimer' = e.timer
    /\ bnSeenTrigger' = reminderTrigger
    /\ bnReshownAt' = NULL
    /\ UNCHANGED <<now, doseVars, fmtVars, mtVars, prVars, rhVars, pageVars, cdVars>>

\* The reminderTrigger prop differs from the one the effect of lines 43-52 last
\* ran with: React runs the cleanup of that run (line 50, when it returned one),
\* then the effect again.  The timeout of lines 34-40 belongs to the other
\* effect, whose dependency list is empty: nothing here clears it.
BannerTriggerEffect ==
    /\ bnPhase = "mounted"
    /\ reminderTrigger # bnSeenTrigger
    /\ LET e == TriggerEffect(reminderTrigger, now)
       IN  /\ showBanner' = (showBanner \/ e.show)
           /\ bnTrigTimer' = e.timer
           /\ bnReshownAt' = IF e.show /\ ~showBanner THEN now ELSE bnReshownAt
    /\ bnSeenTrigger' = reminderTrigger
    /\ UNCHANGED <<now, doseVars, fmtVars, mtVars, prVars, rhVars, pageVars, bnPhase, bnInitTimer, cdVars>>

\* The initial timeout elapses: its callback, line 37.
BnInitTimerFire ==
    /\ bnInitTimer # NULL
    /\ now >= bnInitTimer
    /\ showBanner' = FALSE
    /\ bnInitTimer' = NULL
    /\ bnReshownAt' = NULL
    /\ UNCHANGED <<now, doseVars, fmtVars, mtVars, prVars, rhVars, pageVars, bnPhase, bnSeenTrigger, bnTrigTimer, cdVars>>

\* The timeout armed by the trigger effect elapses: its callback, line 48.
BnTrigTimerFire ==
    /\ bnTrigTimer # NULL
    /\ now >= bnTrigTimer
    /\ showBanner' = FALSE
    /\ bnTrigTimer' = NULL
    /\ bnReshownAt' = NULL
    /\ UNCHANGED <<now, doseVars, fmtVars, mtVars, prVars, rhVars, pageVars, bnPhase, bnSeenTrigger, bnInitTimer, cdVars>>

\* What the analyze button's onClick (lines 179-182) makes of showBanner;
\* AfterAnalyzeClickToggle flips the banner instead.
AfterAnalyzeClickToggle(show, initTimer, trigTimer) == ~show
AfterAnalyzeClick(show, initTimer, trigTimer) == FALSE

\* The analyze button is pressed: setShowBanner(false), then the file dialog
\* of the hidden input is opened (lines 179-182).  The button is disabled
\* while a recognition is loading (line 183).
AnalyzeClick ==
    /\ bnPhase = "mounted"
    /\ ~isRecognitionLoading
    /\ showBanner' = AfterAnalyzeClick(showBanner, bnInitTimer, bnTrigTimer)
    /\ bnReshownAt' = IF showBanner' THEN bnReshownAt ELSE NULL
    /\ pickerOpen' = TRUE
    /\ UNCHANGED <<now, doseVars, fmtVars, mtVars, fileCount, readers, recRequests, imagePreview,
                   pillInfo, isRecognitionLoading, recToast, recToastCount, selectedPill,
                   isModalOpen, isAlternativesLoading, detailedAlternatives, altCount,
                   altRequests, altToastCount, rhVars, pageVars, bnPhase, bnSeenTrigger,
                   bnInitTimer, bnTrigTimer, cdVars>>

\* Unmount: the cleanups of both effects, lines 39 and 50.
BnUnmount ==
    /\ bnPhase = "mounted"
    /\ bnPhase' = "unmounted"
    /\ bnInitTimer' = ClearTimeout(bnInitTimer)
    /\ bnTrigTimer' = ClearTimeout(bnTrigTimer)
    /\ UNCHANGED <<now, doseVars, fmtVars, mtVars, prVars, rhVars, pageVars, showBanner, bnSeenTrigger, bnReshownAt,
                   cdVars>>

\* ReminderHandler calls its onReminder prop (page.tsx line 48): the banner is
\* checked against every sequence of such calls, up to MaxTrigger of them.
OnReminderCall ==
    /\ reminderTrigger + triggerQueue < MaxTrigger
    /\ triggerQueue' = handleReminder(triggerQueue)
    /\ reminderTrigger' = reminderTrigger
    /\ UNCHANGED <<now, doseVars, fmtVars, mtVars, prVars, rhVars, bnVars, cdVars>>

\* Time passes until the earliest pending hide timeout is due.
PendingHideTimers == {bnInitTimer, bnTrigTimer} \ {NULL}
AdvanceToHideTimer ==
    /\ \E t \in PendingHideTimers :
        /\ t > now
        /\ \A u \in PendingHideTimers : t <= u
        /\ now' = t
    /\ UNCHANGED <<doseVars, fmtVars, mtVars, prVars, rhVars, pageVars, bnVars, cdVars>>

----------------------------------------------------------------------------
(* Pill recognition and food alternatives: PillRecognizer, src/unnamed/part_000
   lines 22-29, 96-145 and 231-236, and the server actions of
   src/unnamed/part_004.  A chosen file is named by its number, a
   getFoodAlternatives call by its number. *)

MaxFiles == 2
MaxCalls == 2

NoPillInfo == [file |-> NULL, pills |-> << >>]
NoToast == ""
NoPill == ""
NoAlternatives == [call |-> 0, pillName |-> ""]

\* What can happen to one recognition: the inference service answers with
\* pills or with none (data.pills || [], part_004 line 46), the data URI does
\* not parse (line 18), the service answers with an error status (line 38),
\* fetch rejects (line 31) or the body is not JSON (line 41).
RecognitionOutcomes == {"pills", "no-pills", "invalid-uri", "http-error", "fetch-failed", "bad-json"}

\* recognizePillFromImageFlow, part_004 lines 9-54: the catch of lines 49-52
\* logs and rethrows the error unchanged.
recognizePillFromImageFlow(file, outcome) ==
    CASE outcome = "pills"        -> [ok |-> TRUE, pills |-> <<"aspirin", "vitamin">>, message |-> ""]
      [] outcome = "no-pills"     -> [ok |-> TRUE, pills |-> << >>, message |-> ""]
      [] outcome = "invalid-uri"  -> [ok |-> FALSE, pills |-> << >>,
                                      message |-> "Invalid data URI format received"]
      [] outcome = "http-error"   -> [ok |-> FALSE, pills |-> << >>,
                                      message |-> "FastAPI request failed with status"]
      [] outcome = "fetch-failed" -> [ok |-> FALSE, pills |-> << >>, message |-> "fetch failed"]
      [] outcome = "bad-json"     -> [ok |-> FALSE, pills |-> << >>, message |-> "Unexpected token"]

\* handlePillRecognition, part_004 lines 57-65: every error of the flow is
\* replaced by one Error with a fixed message (line 63).
RecognitionError == "Failed to recognize pill. Please try again with a clearer image."
handlePillRecognition(file, outcome) ==
    LET result == recognizePillFromImageFlow(file, outcome)
    IN  IF result.ok THEN result ELSE [result EXCEPT !.message = RecognitionError]

\* A file is chosen in the dialog: handleImageChange, lines 96-107, starts a
\* FileReader; its onloadend runs later.
PickFile ==
    /\ pickerOpen
    /\ fileCount < MaxFiles
    /\ pickerOpen' = FALSE
    /\ fileCount' = fileCount + 1
    /\ readers' = readers \cup {fileCount + 1}
    /\ UNCHANGED <<now, doseVars, fmtVars, mtVars, recRequests, imagePreview, pillInfo,
                   isRecognitionLoading, recToast, recToastCount, selectedPill, isModalOpen,
                   isAlternativesLoading, detailedAlternatives, altCount, altRequests,
                   altToastCount, rhVars, pageVars, bnVars, cdVars>>

\* The dialog is dismissed without a file (line 98 finds none).
PickerCancel ==
    /\ pickerOpen
    /\ pickerOpen' = FALSE
    /\ UNCHANGED <<now, doseVars, fmtVars, mtVars, fileCount, readers, recRequests, imagePreview,
                   pillInfo, isRecognitionLoading, recToast, recToastCount, selectedPill,
                   isModalOpen, isAlternativesLoading, detailedAlternatives, altCount,
                   altRequests, altToastCount, rhVars, pageVars, bnVars, cdVars>>

\* reader.onloadend, lines 101-105: setImagePreview, then recognizePill up to
\* its await (lines 110-113).
ReaderLoadEnd(file) ==
    /\ file \in readers
    /\ readers' = readers \ {file}
    /\ imagePreview' = file
    /\ isRecognitionLoading' = TRUE
    /\ pillInfo' = NoPillInfo
    /\ recRequests' = recRequests \cup {file}
    /\ UNCHANGED <<now, doseVars, fmtVars, mtVars, pickerOpen, fileCount, recToast, recToastCount,
                   selectedPill, isModalOpen, isAlternativesLoading, detailedAlternatives,
                   altCount, altRequests, altToastCount, rhVars, pageVars, bnVars, cdVars>>

\* The handlePillRecognition call of `file` settles: recognizePill from its
\* await on, lines 113-123.
RecognitionSettle(file, outcome) ==
    /\ file \in recRequests
    /\ recRequests' = recRequests \ {file}
    /\ LET result == handlePillRecognition(file, outcome)
       IN  IF result.ok
           THEN /\ pillInfo' = [file |-> file, pills |-> result.pills]
                /\ UNCHANGED <<recToast, recToastCount>>
           ELSE /\ pillInfo' = pillInfo
                /\ recToast' = result.message
                /\ recToastCount' = recToastCount + 1
    /\ isRecognitionLoading' = FALSE
    /\ UNCHANGED <<now, doseVars, fmtVars, mtVars, pickerOpen, fileCount, readers, imagePreview,
                   selectedPill, isModalOpen, isAlternativesLoading, detailedAlternatives,
                   altCount, altRequests, altToastCount, rhVars, pageVars, bnVars, cdVars>>

\* The pills listed by the render of lines 201-227.
ListedPills == {pillInfo.pills[i] : i \in 1 .. Len(pillInfo.pills)}

\* The AI button of a listed pill is pressed: handleAiButtonClick up to its
\* await, lines 126-133.  An open dialog is modal and covers the buttons.
AiButtonClick(pill) ==
    /\ bnPhase = "mounted"
    /\ pill \in ListedPills
    /\ ~isModalOpen
    /\ altCount < MaxCalls
    /\ selectedPill' = pill
    /\ isModalOpen' = TRUE
    /\ isAlternativesLoading' = TRUE
    /\ detailedAlternatives' = NoAlternatives
    /\ altCount' = altCount + 1
    /\ altRequests' = altRequests \cup {[call |-> altCount + 1, pillName |-> pill]}
    /\ UNCHANGED <<now, doseVars, fmtVars, mtVars, pickerOpen, fileCount, readers, recRequests,
                   imagePreview, pillInfo, isRecognitionLoading, recToast, recToastCount,
                   altToastCount, rhVars, pageVars, bnVars, cdVars>>

\* A getFoodAlternatives call resolves: lines 134 and 142-144.  The response
\* is the one for the pill name the call was made with.
AlternativesResolve(request) ==
    /\ request \in altRequests
    /\ altRequests' = altRequests \ {request}
    /\ detailedAlternatives' = request
    /\ isAlternativesLoading' = FALSE
    /\ UNCHANGED <<now, doseVars, fmtVars, mtVars, pickerOpen, fileCount, readers, recRequests,
                   imagePreview, pillInfo, isRecognitionLoading, recToast, recToastCount,
                   selectedPill, isModalOpen, altCount, altToastCount, rhVars, pageVars,
                   bnVars, cdVars>>

\* A getFoodAlternatives call rejects: lines 135-144.
AlternativesReject(request) ==
    /\ request \in altRequests
    /\ altRequests' = altRequests \ {request}
    /\ altToastCount' = altToastCount + 1
    /\ isModalOpen' = FALSE
    /\ isAlternativesLoading' = FALSE
    /\ UNCHANGED <<now, doseVars, fmtVars, mtVars, pickerOpen, fileCount, readers, recRequests,
                   imagePreview, pillInfo, isRecognitionLoading, recToast, recToastCount,
                   selectedPill, detailedAlternatives, altCount, rhVars, pageVars, bnVars,
                   cdVars>>

\* The dialog is closed by the user: onOpenChange(false), lines 231-236.
DialogClose ==
    /\ isModalOpen
    /\ isModalOpen' = FALSE
    /\ detailedAlternatives' = NoAlternatives
    /\ UNCHANGED <<now, doseVars, fmtVars, mtVars, pickerOpen, fileCount, readers, recRequests,
                   imagePreview, pillInfo, isRecognitionLoading, recToast, recToastCount,
                   selectedPill, isAlternativesLoading, altCount, altRequests, altToastCount,
                   rhVars, pageVars, bnVars, cdVars>>

----------------------------------------------------------------------------
(* Specification SpecDose: getNextDoseDate applied to every sampled instant *)

\* The state before anything is mounted or called.
InitIdle ==
    /\ doseArg = NULL
    /\ doseResult = NULL
    /\ fmtResult = << >>
    /\ takenDoses = [d \in {"morning", "noon", "evening"} |-> FALSE]
    /\ mtOps = << >>
    /\ mtHistory = <<takenDoses>>
    /\ pickerOpen = FALSE
    /\ fileCount = 0
    /\ readers = {}
    /\ recRequests = {}
    /\ imagePreview = NULL
    /\ pillInfo = NoPillInfo
    /\ isRecognitionLoading = FALSE
    /\ recToast = NoToast
    /\ recToastCount = 0
    /\ selectedPill = NoPill
    /\ isModalOpen = FALSE
    /\ isAlternativesLoading = FALSE
    /\ detailedAlternatives = NoAlternatives
    /\ altCount = 0
    /\ altRequests = {}
    /\ altToastCount = 0
    /\ rhPhase = "init"
    /\ mountNow = NULL
    /\ slotReads = << >>
    /\ timers = << >>
    /\ pending = {}
    /\ fires = [n \in {"morning", "noon", "evening"} |-> 0]
    /\ manualFires = 0
    /\ toastCount = 0
    /\ soundCalls = 0
    /\ soundErrors = 0
    /\ uncaught = 0
    /\ callbackCount = 0
    /\ reminderTrigger = 0
    /\ triggerQueue = 0
    /\ bnPhase = "init"
    /\ showBanner = TRUE
    /\ bnSeenTrigger = NULL
    /\ bnInitTimer = NULL
    /\ bnTrigTimer = NULL
    /\ bnReshownAt = NULL
    /\ cdPhase = "init"
    /\ nextDose = NULL
    /\ timeLeft = 0
    /\ cdEffectDue = FALSE
    /\ cdInterval = NoInterval
    /\ cdEvalNow = NULL
    /\ cdEvalTarget = NULL
    /\ cdStreak = 0

InitDose ==
    /\ now \in Instants
    /\ hasCallback = TRUE
    /\ fmtArg = NULL
    /\ InitIdle

\* A caller reads the clock and asks for the next dose.
ProbeNextDose ==
    /\ doseArg = NULL
    /\ doseArg' = now
    /\ doseResult' = getNextDoseDate(now)
    /\ UNCHANGED <<now, fmtVars, mtVars, prVars, rhVars, pageVars, bnVars, cdVars>>

NextDose == ProbeNextDose

SpecDose == InitDose /\ [][NextDose]_vars

----------------------------------------------------------------------------
(* Specification SpecReminder: ReminderHandler, mounted at any sampled
   instant, with or without an onReminder prop.  Its onReminder calls queue
   their updates in triggerQueue; the render of Home that applies them is part
   of SpecHome and SpecPage. *)

InitReminder ==
    /\ now \in ClockInstants
    /\ hasCallback \in BOOLEAN
    /\ fmtArg = NULL
    /\ InitIdle

NextReminder ==
    \/ RhMount
    \/ \E name \in DOMAIN REMINDER_TIMES : TimerFire(name)
    \/ ManualTrigger
    \/ RhUnmount
    \/ AdvanceClock

SpecReminder == InitReminder /\ [][NextReminder]_vars

----------------------------------------------------------------------------
(* Specification SpecCountdown: the page with its NextDoseCountdown, opened at
   any sampled instant *)

InitCountdown ==
    /\ now \in ClockInstants
    /\ hasCallback = TRUE
    /\ fmtArg = NULL
    /\ InitIdle

NextCountdown ==
    \/ CdMount
    \/ CdMountEffects
    \/ CdRunEffect
    \/ CdTick
    \/ CdUnmount
    \/ AdvanceClock
    \/ AdvanceTick

SpecCountdown == InitCountdown /\ [][NextCountdown]_vars

----------------------------------------------------------------------------
(* Specification SpecBanner: the page with its PillRecognizer under every
   sequence of reminder callbacks.  The hide timeouts are relative to the time
   they are armed at and nothing in PillRecognizer reads the calendar, so the
   page is opened at the sampled instants of the last afternoon only. *)

LastAfternoon == {t \in ClockInstants : t >= DayStart(t) + 12 * MsPerHour /\ t >= MaxDay * MsPerDay}

InitBanner ==
    /\ now \in LastAfternoon
    /\ hasCallback = TRUE
    /\ fmtArg = NULL
    /\ InitIdle

NextBanner ==
    \/ BnMount
    \/ OnReminderCall
    \/ PageRender
    \/ BannerTriggerEffect
    \/ BnInitTimerFire
    \/ BnTrigTimerFire
    \/ AnalyzeClick
    \/ BnUnmount
    \/ AdvanceClock
    \/ AdvanceToHideTimer

SpecBanner == InitBanner /\ [][NextBanner]_vars

\* The same, with the scheduling the runtime gives: a timeout that is due runs,
\* time passes until a pending timeout is due, and React renders queued updates
\* and runs the effects of a committed render.
SpecBannerFair ==
    /\ SpecBanner
    /\ WF_vars(BnInitTimerFire)
    /\ WF_vars(BnTrigTimerFire)
    /\ WF_vars(AdvanceToHideTimer)
    /\ WF_vars(PageRender)
    /\ WF_vars(BannerTriggerEffect)

----------------------------------------------------------------------------
(* Specification SpecHome: Home with its ReminderHandler and its
   reminderTrigger state, opened at any sampled instant of the last modelled
   day; Home always passes handleReminder as onReminder (page.tsx line 48). *)

LastDay == {t \in ClockInstants : t >= MaxDay * MsPerDay}

InitHome ==
    /\ now \in LastDay
    /\ hasCallback = TRUE
    /\ fmtArg = NULL
    /\ InitIdle

NextHome ==
    \/ RhMount
    \/ \E name \in DOMAIN REMINDER_TIMES : TimerFire(name)
    \/ ManualTrigger
    \/ RhUnmount
    \/ PageRender
    \/ AdvanceClock

SpecHome == InitHome /\ [][NextHome]_vars

----------------------------------------------------------------------------
(* Specification SpecPage: Home with PillRecognizer, NextDoseCountdown and
   ReminderHandler together, opened in the last hour sampled before the
   evening dose of the last modelled day, so that the page runs across a dose
   instant.  The user leaves the page alone (no test reminder, no analyze
   button) until it is closed.  Home renders its three components
   unconditionally (page.tsx lines 44-48), so they mount with the page and
   unmount with it: the clock advances only while all three are mounted or
   after all three are unmounted. *)

BeforeEveningDose == {t \in LastAfternoon : t < DayStart(t) + 18 * MsPerHour}

PageSettled ==
    \/ rhPhase = "mounted" /\ cdPhase = "mounted" /\ bnPhase = "mounted"
    \/ rhPhase = "unmounted" /\ cdPhase = "unmounted" /\ bnPhase = "unmounted"

PageAdvanceClock == PageSettled /\ AdvanceClock
PageAdvanceTick == PageSettled /\ AdvanceTick
PageAdvanceToHideTimer == PageSettled /\ AdvanceToHideTimer

InitPage ==
    /\ now \in BeforeEveningDose
    /\ hasCallback = TRUE
    /\ fmtArg = NULL
    /\ InitIdle

NextPage ==
    \/ RhMount
    \/ \E name \in DOMAIN REMINDER_TIMES : TimerFire(name)
    \/ RhUnmount
    \/ PageRender
    \/ CdMount
    \/ CdMountEffects
    \/ CdRunEffect
    \/ CdTick
    \/ CdUnmount
    \/ BnMount
    \/ BannerTriggerEffect
    \/ BnInitTimerFire
    \/ BnTrigTimerFire
    \/ BnUnmount
    \/ PageAdvanceClock
    \/ PageAdvanceTick
    \/ PageAdvanceToHideTimer

SpecPage == InitPage /\ [][NextPage]_vars

----------------------------------------------------------------------------
(* Specification SpecKeptMounted: Home with its ReminderHandler and its
   NextDoseCountdown, opened at any sampled instant of the day before the last
   modelled day and never closed.  Both components mount with the page, so the
   clock advances only once both are mounted; a reminder timeout that is due
   runs, and Home renders a queued update, before the clock moves on. *)

DayBeforeLast == {t \in ClockInstants : DayStart(t) = (MaxDay - 1) * MsPerDay}

KeptSettled ==
    /\ rhPhase = "mounted"
    /\ cdPhase = "mounted"
    /\ \A name \in pending : now < TimerOf(timers, name).due
    /\ triggerQueue = 0

KeptAdvanceClock == KeptSettled /\ AdvanceClock
KeptAdvanceTick == KeptSettled /\ AdvanceTick

InitKeptMounted ==
    /\ now \in DayBeforeLast
    /\ hasCallback = TRUE
    /\ fmtArg = NULL
    /\ InitIdle

NextKeptMounted ==
    \/ RhMount
    \/ \E name \in DOMAIN REMINDER_TIMES : TimerFire(name)
    \/ PageRender
    \/ CdMount
    \/ CdMountEffects
    \/ CdRunEffect
    \/ CdTick
    \/ KeptAdvanceClock
    \/ KeptAdvanceTick

SpecKeptMounted == InitKeptMounted /\ [][NextKeptMounted]_vars

----------------------------------------------------------------------------
(* Specification SpecFormat: formatTimeLeft applied to sampled durations:
   negative, zero, below one second, and every combination of the sampled
   hour, minute, second and millisecond parts *)

FormatHours == {0, 1, 9, 10, 13, 23, 99, 100, 123}
FormatMinutes == {0, 1, 9, 10, 59}
FormatMillis == {0, 1, 999}
FormatInputs ==
    {((h * 60 + m) * 60 + sec) * 1000 + f :
        h \in FormatHours, m \in FormatMinutes, sec \in FormatMinutes, f \in FormatMillis}
    \cup {0 - 1, 0 - 999, 0 - 1000, 0 - 3661000, 0 - MsPerDay}

InitFormat ==
    /\ now = 0
    /\ hasCallback = TRUE
    /\ fmtArg \in FormatInputs
    /\ InitIdle

\* The component renders formatTimeLeft(timeLeft), line 84.
ProbeFormat ==
    /\ fmtResult = << >>
    /\ fmtResult' = formatTimeLeft(fmtArg)
    /\ UNCHANGED <<now, doseVars, fmtArg, mtVars, prVars, rhVars, pageVars, bnVars, cdVars>>

NextFormat == ProbeFormat

SpecFormat == InitFormat /\ [][NextFormat]_vars

----------------------------------------------------------------------------
(* Specification SpecTracker: MedicationTracker under every sequence of up to
   MaxClicks button presses *)

InitTracker ==
    /\ now = 0
    /\ hasCallback = TRUE
    /\ fmtArg = NULL
    /\ InitIdle

NextTracker ==
    \/ \E dose \in Doses : TakeDose(dose)
    \/ TakeAll

SpecTracker == InitTracker /\ [][NextTracker]_vars

----------------------------------------------------------------------------
(* Specification SpecRecognizer: the mounted PillRecognizer under every order
   of up to MaxFiles chosen files and MaxCalls food-alternatives calls, each
   request settling at any later moment with any outcome *)

InitRecognizer ==
    /\ now = 0
    /\ hasCallback = TRUE
    /\ fmtArg = NULL
    /\ InitIdle

NextRecognizer ==
    \/ BnMount
    \/ AnalyzeClick
    \/ PickFile
    \/ PickerCancel
    \/ \E file \in readers : ReaderLoadEnd(file)
    \/ \E file \in recRequests : \E outcome \in RecognitionOutcomes :
        RecognitionSettle(file, outcome)
    \/ \E pill \in ListedPills : AiButtonClick(pill)
    \/ \E request \in altRequests : AlternativesResolve(request)
    \/ \E request \in altRequests : AlternativesReject(request)
    \/ DialogClose

SpecRecognizer == InitRecognizer /\ [][NextRecognizer]_vars

----------------------------------------------------------------------------
(* Claims about the Dose Schedule *)

At(day, hour, ms) == day * MsPerDay + hour * MsPerHour + ms

\* C1: for every instant now, getNextDoseDate(now) is strictly greater than now.
C1_NextDoseStrictlyFuture ==
    doseArg # NULL => doseResult > doseArg

\* The case of C1 happens: the function was called exactly at a dose instant
\* (the last one of a day), where only strictness keeps the result in the future.
C1_Witness ==
    /\ doseArg # NULL
    /\ doseArg = At(0, 18, 0)
    /\ doseResult > doseArg

\* The reference result of C2, stated without the loop: the slots of today that
\* are strictly later than t, the earliest of them, and tomorrow 08:00 if none.
RefLaterSlots(t) == { h \in {8, 12, 18} : DayStart(t) + h * MsPerHour > t }
RefNextDose(t) ==
    IF RefLaterSlots(t) # {}
    THEN LET h == CHOOSE x \in RefLaterSlots(t) : \A y \in RefLaterSlots(t) : x <= y
         IN  DayStart(t) + h * MsPerHour
    ELSE DayStart(t) + MsPerDay + 8 * MsPerHour

\* C2: getNextDoseDate(now) is today's instant of the first slot of 8, 12, 18
\* strictly later than now, else tomorrow 08:00:00.000; before 08:00 gives today
\* 08:00, 14:00 gives today 18:00, 19:00 gives tomorrow 08:00 and a now equal to
\* a dose instant gives the following slot.
C2_NextDoseIsReference ==
    doseArg # NULL =>
        /\ doseResult = RefNextDose(doseArg)
        /\ \A d \in 0 .. MaxDay :
            /\ (doseArg >= At(d, 0, 0) /\ doseArg < At(d, 8, 0)) => doseResult = At(d, 8, 0)
            /\ doseArg = At(d, 14, 0)  => doseResult = At(d, 18, 0)
            /\ doseArg = At(d, 19, 0)  => doseResult = At(d + 1, 8, 0)
            /\ doseArg = At(d, 8, 0)   => doseResult = At(d, 12, 0)
            /\ doseArg = At(d, 12, 0)  => doseResult = At(d, 18, 0)
            /\ doseArg = At(d, 18, 0)  => doseResult = At(d + 1, 8, 0)

\* The case of C2 happens: a call in the middle of an hour between two slots,
\* where the result must drop the minutes of now.
C2_Witness ==
    /\ doseArg = At(0, 14, MsPerHour - 1)
    /\ doseResult = At(0, 18, 0)

----------------------------------------------------------------------------
(* Claims about the Reminder Scheduler *)

Slots == DOMAIN REMINDER_TIMES
ScheduledFires == fires["morning"] + fires["noon"] + fires["evening"]
TotalFires == ScheduledFires + manualFires
Armed(name) == name \in TimerNames(timers)
Fired(name) == fires[name] > 0

\* C3: after the ReminderHandler is unmounted no reminder fires: from then on no
\* step emits a notification, a sound or a callback, whether or not timers had
\* fired before the unmount.
C3_NoFireAfterUnmount ==
    [][rhPhase = "unmounted" =>
        /\ toastCount' = toastCount
        /\ soundCalls' = soundCalls
        /\ callbackCount' = callbackCount
        /\ triggerQueue' <= triggerQueue
        /\ fires' = fires]_vars

\* The case of C3 happens: the component is unmounted after one timer fired, and
\* the clock is past the instant of another timer that was still pending.
C3_Witness ==
    /\ rhPhase = "unmounted"
    /\ \E a, b \in Slots :
        /\ Armed(a) /\ Fired(a)
        /\ Armed(b) /\ ~Fired(b) /\ now > TimerOf(timers, b).due

C5_FiresAtMostOnce ==
    /\ \A name \in Slots : fires[name] <= 1
    /\ \A name \in Slots : Fired(name) => Armed(name)
    /\ ScheduledFires <= Len(timers)

\* The case of C5 happens: all three timers were armed and every one has fired.
C5_Witness ==
    /\ Len(timers) = 3
    /\ \A name \in Slots : fires[name] = 1
    /\ pending = {}

\* C6: every fire, scheduled or manual, emits one notification, invokes the
\* audible alert once and invokes onReminder exactly once when it is supplied;
\* onReminder is never invoked without a fire.
C6_FireSideEffects ==
    /\ toastCount = TotalFires
    /\ soundCalls = TotalFires
    /\ callbackCount = (IF hasCallback THEN TotalFires ELSE 0)

\* The case of C6 happens: with a callback supplied, a timer elapsed and the
\* test button was pressed.
C6_Witness ==
    /\ hasCallback
    /\ ScheduledFires >= 1
    /\ manualFires >= 1
    /\ callbackCount = TotalFires

\* C7: the manual trigger leaves the pending timers and their due instants
\* unchanged, however often and whenever it runs; each armed slot is still
\* pending or has fired exactly once, and fires no earlier than its own instant.
C7_ManualTriggerFrame ==
    /\ [][manualFires' # manualFires =>
            /\ pending' = pending
            /\ timers' = timers
            /\ fires' = fires]_vars
    /\ [][\A name \in Slots : fires'[name] # fires[name] =>
            /\ name \in pending
            /\ now >= TimerOf(timers, name).instant]_vars
    /\ [](rhPhase = "mounted" =>
            \A name \in Slots : Armed(name) =>
                fires[name] + (IF name \in pending THEN 1 ELSE 0) = 1)

\* The case of C7 happens: the test button was pressed twice while timers were
\* armed, and all three armed timers have fired once.
C7_Witness ==
    /\ manualFires >= 2
    /\ Len(timers) = 3
    /\ \A name \in Slots : fires[name] = 1

\* C8: a failure of the audible alert during a fire is caught and logged inside
\* playNotificationSound and does not propagate: onReminder of that same fire is
\* still invoked and every other pending timer stays pending.
C8_AudioFailureContained ==
    /\ [][soundErrors' # soundErrors =>
            /\ soundErrors' = soundErrors + 1
            /\ uncaught' = uncaught
            /\ hasCallback => callbackCount' = callbackCount + 1
            /\ \A name \in pending : name \in pending' \/ fires'[name] = fires[name] + 1
            /\ Cardinality(pending \ pending') <= 1]_vars
    /\ [](uncaught = 0)

\* The case of C8 happens: the sound failed in every fire so far, and after the
\* first timer's failed sound a later timer has fired too, callbacks included.
C8_Witness ==
    /\ hasCallback
    /\ soundErrors = soundCalls
    /\ fires["morning"] = 1
    /\ fires["noon"] = 1
    /\ "evening" \in pending
    /\ callbackCount = 2

----------------------------------------------------------------------------
(* Claims about the Countdown Engine *)

\* A step that runs calculateTimeLeft: a tick of the interval, or the first
\* calculation of the effect.
CdEvaluation == CdTick \/ CdRunEffect

\* C9: tick evaluations performed while now is before the current target leave
\* the target (nextDose) unchanged, however many there are.
C9_TickKeepsTarget ==
    [][(CdEvaluation /\ nextDose # NULL /\ now < nextDose) => nextDose' = nextDose]_vars

\* The case of C9 happens: several evaluations in a row ran before the target
\* was reached, the latest of them a second or more after the one before.
C9_Witness ==
    /\ cdStreak >= 2
    /\ cdEvalNow = now
    /\ timeLeft > 0
    /\ nextDose = now + timeLeft

\* C10: once now has reached or passed the target, by any amount, one tick
\* evaluation replaces the target with one strictly greater than now.
C10_RolloverInOneTick ==
    [][(CdEvaluation /\ nextDose # NULL /\ now >= nextDose) =>
            /\ nextDose' # nextDose
            /\ nextDose' > now']_vars

\* The case of C10 happens: an evaluation ran ten hours or more after its
\* target, several dose instants and many ticks late, and the target it left is
\* in the future.
C10_Witness ==
    /\ cdEvalNow = now
    /\ timeLeft <= 0 - 10 * MsPerHour
    /\ nextDose > now

\* What the component renders, lines 80-88: the formatted time when timeLeft is
\* positive, the dose-due indicator otherwise.
ShowsTimeFromZero == timeLeft >= 0
ShowsTime == timeLeft > 0
ShowsDoseDue == ~ShowsTime

\* The text inside the card, lines 82-88; DoseDueText stands for the Korean
\* sentence of line 87 ("it is time to take your dose").
DoseDueText == <<"dose-due">>
Rendered == IF ShowsTime THEN formatTimeLeft(timeLeft) ELSE DoseDueText

C12_ElapsedIsTransient ==
    [][(CdTick /\ cdEvalNow # NULL /\ timeLeft <= 0) => timeLeft' > 0]_vars

----------------------------------------------------------------------------
(* Claims about the Banner Visibility Timer *)

HideTimerFire == BnInitTimerFire \/ BnTrigTimerFire

\* C13: whenever reminderTrigger changes to a value above 0 the banner becomes
\* visible, a new 9-second hide timer is armed, and every hide timer that was
\* pending before, the initial one included, is cancelled: after the step the
\* new timer is the only one pending.
C13_TriggerCancelsEarlierTimers ==
    [][(BannerTriggerEffect /\ reminderTrigger > 0) =>
        /\ showBanner'
        /\ bnTrigTimer' = HideTimerAt(now)
        /\ bnInitTimer' = NULL]_vars

\* C14: a banner that was hidden (by a timer or by the analyze button) and that
\* a trigger increment made visible again stays visible until its hide timer
\* fires 9 seconds after that increment was handled: no hide timer hides it
\* earlier.
C14_ReshownForNineSeconds ==
    [][(HideTimerFire /\ bnReshownAt # NULL) => now >= bnReshownAt + BannerDelay]_vars

\* C15: at most one banner hide timer is pending in every reachable state.
C15_AtMostOneHideTimer ==
    ~(bnInitTimer # NULL /\ bnTrigTimer # NULL)

\* C16: pressing the analyze button sets the banner's visibility to false in
\* that very step, whatever hide timers are pending and however recently a
\* reminder trigger re-showed the banner.
C16_AnalyzeClickHides ==
    [][AnalyzeClick => ~showBanner']_vars

\* The case of C16 happens: the banner is hidden while the initial timer and a
\* trigger timer armed after it are both still pending and not yet due, which
\* only the button can have done.
C16_Witness ==
    /\ bnPhase = "mounted"
    /\ ~showBanner
    /\ reminderTrigger > 0
    /\ bnSeenTrigger = reminderTrigger
    /\ bnInitTimer # NULL /\ now < bnInitTimer
    /\ bnTrigTimer # NULL /\ now < bnTrigTimer

----------------------------------------------------------------------------
(* Claims about the page state *)

\* C17: the reminder-trigger counter is 0 until the first fire, never decreases,
\* grows by one per fire (scheduled or manual), and equals the number of fires so
\* far in every render that has no update waiting, also when several fires were
\* queued before one render.
C17_TriggerCountsFires ==
    /\ [](/\ reminderTrigger + triggerQueue = TotalFires
          /\ triggerQueue = 0 => reminderTrigger = TotalFires
          /\ TotalFires = 0 => reminderTrigger = 0)
    /\ [][/\ reminderTrigger' >= reminderTrigger
          /\ reminderTrigger' + triggerQueue' \in
                {reminderTrigger + triggerQueue, reminderTrigger + triggerQueue + 1}
          /\ PageRender => reminderTrigger' = reminderTrigger + triggerQueue]_vars

\* The case of C17 happens: a scheduled fire and a manual fire have both queued
\* their update before Home rendered again.
C17_Witness ==
    /\ triggerQueue = 2
    /\ reminderTrigger = 0
    /\ ScheduledFires = 1
    /\ manualFires = 1

----------------------------------------------------------------------------
(* Claims relating the Reminder Scheduler to the Dose Schedule *)

DoseHours == {DOSE_TIMES_IN_HOURS[i] : i \in DOMAIN DOSE_TIMES_IN_HOURS}
ReminderHours == {REMINDER_TIMES[n] : n \in DOMAIN REMINDER_TIMES}
ArmedInstants == {timers[i].instant : i \in 1 .. Len(timers)}
EarliestArmed == CHOOSE t \in ArmedInstants : \A u \in ArmedInstants : t <= u
SameDayReads == \A j \in 1 .. Len(slotReads) : DayStart(slotReads[j]) = DayStart(mountNow)

\* C18: the scheduler and the countdown use the same dose hours, so whenever a
\* mount arms at least one timer, the earliest armed instant is
\* getNextDoseDate(now) for the mount-time now, and every armed instant is what
\* getNextDoseDate returns for some instant of the day of that now.
C18_DerivationConsistent ==
    /\ ReminderHours = DoseHours
    /\ (mountNow # NULL /\ timers # << >>) =>
        /\ EarliestArmed = getNextDoseDate(mountNow)
        /\ \A a \in ArmedInstants :
            \E t \in Instants : DayStart(t) = DayStart(mountNow) /\ getNextDoseDate(t) = a

\* C24: every armed timer targets a dose instant of the calendar day of the
\* mount-time now: its delay is positive and at most the time from that now to
\* 18:00 of that day, also when the clock moves on (for instance over midnight)
\* between the read of now and the read made for a slot.
C24_TimersTargetToday ==
    mountNow # NULL =>
        \A i \in 1 .. Len(timers) :
            /\ DayStart(timers[i].instant) = DayStart(mountNow)
            /\ timers[i].delay > 0
            /\ timers[i].delay <= SetHours(mountNow, 18) - mountNow

----------------------------------------------------------------------------
(* Claims about the page as a whole *)

\* C19: all timers are cancelled on teardown: once NextDoseCountdown is
\* unmounted no evaluation runs, once PillRecognizer is unmounted no hide timer
\* fires, and an unmounted component has no pending timer.
C19_TeardownCancelsTimers ==
    /\ [](/\ cdPhase = "unmounted" => (cdInterval = NoInterval /\ ~cdEffectDue)
          /\ bnPhase = "unmounted" => PendingHideTimers = {}
          /\ rhPhase = "unmounted" => pending = {})
    /\ [][/\ cdPhase = "unmounted" =>
                /\ ~CdEvaluation
                /\ UNCHANGED <<nextDose, timeLeft, cdEvalNow, cdEvalTarget>>
          /\ bnPhase = "unmounted" =>
                /\ ~HideTimerFire
                /\ UNCHANGED <<showBanner, bnInitTimer, bnTrigTimer>>]_vars

\* The case of C19 happens: the page was closed with the countdown's interval
\* and the banner's initial timer (armed before 13:00:09) never having hidden
\* the banner, and the clock is now past the evening dose and past the time the
\* next tick would have been due.
C19_Witness ==
    /\ bnPhase = "unmounted"
    /\ cdPhase = "unmounted"
    /\ rhPhase = "unmounted"
    /\ showBanner
    /\ cdEvalNow # NULL
    /\ now >= cdEvalNow + TickPeriod
    /\ now >= At(MaxDay, 18, 0)

EveningDose == At(MaxDay, 18, 0)
CdTickDue == cdPhase = "mounted" /\ cdInterval # NoInterval /\ now >= cdInterval.due
EveningFireDue == "evening" \in pending /\ now >= TimerOf(timers, "evening").due

\* C20: at a dose boundary the countdown's tick and the armed timer's fire do
\* not touch each other's state, neither enables nor disables the other, and
\* each computes its result from its own state and the clock, so either order
\* gives the same state: the target advanced to the next dose instant, one more
\* reminder-trigger update, and the banner visible once that update is handled.
C20_BoundaryOrderTolerant ==
    /\ [][/\ CdTick =>
                /\ UNCHANGED <<rhVars, pageVars, bnVars>>
                /\ EveningFireDue' = EveningFireDue
                /\ LET r == calculateTimeLeft(cdInterval.target, now)
                   IN  /\ timeLeft' = r.timeLeft
                       /\ nextDose' = (IF r.rollover THEN r.nextDose ELSE nextDose)
          /\ TimerFire("evening") =>
                /\ UNCHANGED <<cdVars, bnVars>>
                /\ CdTickDue' = CdTickDue
                /\ callbackCount' = callbackCount + 1
                /\ triggerQueue' = triggerQueue + 1
          /\ (BannerTriggerEffect /\ reminderTrigger > 0) => showBanner']_vars
    /\ []((cdPhase = "mounted" /\ cdEvalNow # NULL /\ cdEvalNow >= EveningDose) =>
              nextDose = At(MaxDay + 1, 8, 0))
    /\ [](Fired("evening") => reminderTrigger + triggerQueue = 1)

\* The case of C20 happens: at exactly 18:00 the evening timer has fired and the
\* tick has evaluated against the 18:00 target, the update is rendered and the
\* banner, which the initial timer had hidden, is visible again.
C20_Witness ==
    /\ now = EveningDose
    /\ Fired("evening")
    /\ cdEvalNow = EveningDose
    /\ cdEvalTarget = EveningDose
    /\ nextDose = At(MaxDay + 1, 8, 0)
    /\ reminderTrigger = 1
    /\ bnSeenTrigger = 1
    /\ bnReshownAt = EveningDose
    /\ showBanner

----------------------------------------------------------------------------
(* Claims about the display text *)

DigitValue(c) == (CHOOSE i \in 1 .. 10 : DigitChars[i] = c) - 1
RECURSIVE NumeralValue(_)
NumeralValue(str) ==
    IF str = << >> THEN 0
    ELSE 10 * NumeralValue(SubSeq(str, 1, Len(str) - 1)) + DigitValue(str[Len(str)])
IsNumeral(str) == \A i \in 1 .. Len(str) : \E j \in 1 .. 10 : DigitChars[j] = str[i]
TwoDigits(num) == <<DigitChars[(num \div 10) + 1], DigitChars[(num % 10) + 1]>>

\* C21: formatTimeLeft gives "00:00:00" for every input at or below zero; for a
\* positive input it gives HH:MM:SS of floor(m / 1000) seconds, every field
\* padded with zeros to two digits (an hour count of 100 or more keeps all its
\* digits); formatTimeLeft(0) is "00:00:00" and formatTimeLeft(3661000) is
\* "01:01:01".
C21_FormatTimeLeft ==
    fmtResult # << >> =>
        LET total == fmtArg \div 1000
            HH == total \div 3600
            MM == (total % 3600) \div 60
            SS == total % 60
            n == Len(fmtResult)
            hourField == SubSeq(fmtResult, 1, n - 6)
        IN  /\ fmtArg <= 0 => fmtResult = <<"0", "0", ":", "0", "0", ":", "0", "0">>
            /\ fmtArg > 0 =>
                /\ n >= 8
                /\ SubSeq(fmtResult, n - 5, n) = <<":">> \o TwoDigits(MM) \o <<":">> \o TwoDigits(SS)
                /\ IsNumeral(hourField)
                /\ NumeralValue(hourField) = HH
                /\ HH < 100 => hourField = TwoDigits(HH)
                /\ HH >= 100 => (Len(hourField) = 3 /\ hourField[1] # "0")
            /\ fmtArg = 3661000 => fmtResult = <<"0", "1", ":", "0", "1", ":", "0", "1">>

\* The case of C21 happens: the example of the spec has been formatted.
C21_Witness ==
    /\ fmtArg = 3661000
    /\ fmtResult = <<"0", "1", ":", "0", "1", ":", "0", "1">>

\* C22: whenever the remaining time held by the component is at or below zero
\* it shows the dose-due indicator and not the text 00:00:00, and it shows a
\* formatted HH:MM:SS time exactly when the remaining time is above zero.
C22_DisplayOfRemaining ==
    cdPhase \in {"rendered", "mounted"} =>
        /\ timeLeft <= 0 => (Rendered = DoseDueText /\ Rendered # formatTimeLeft(0))
        /\ timeLeft > 0 => (Rendered = formatTimeLeft(timeLeft) /\ Len(Rendered) = 8)
        /\ (Rendered # DoseDueText) <=> timeLeft > 0

\* The case of C22 happens: an evaluation exactly at its target left a
\* remaining time of 0 in the mounted component.
C22_Witness ==
    /\ cdPhase = "mounted"
    /\ cdEvalNow # NULL
    /\ cdEvalNow = cdEvalTarget
    /\ timeLeft = 0

----------------------------------------------------------------------------
(* Claims relating the countdown's rollovers to the reminders *)

\* An evaluation of the countdown that finds its target reached and rolls over.
Rollover == (CdTick \/ CdRunEffect) /\ timeLeft' <= 0

----------------------------------------------------------------------------
(* Claims about the countdown's target *)

\* C26: with a clock that never goes back, after every completed evaluation of
\* the countdown the target is getNextDoseDate(now) for the now of that
\* evaluation; hence the target never moves backwards and every change of the
\* target is an increase, also when ticks were missed for any length of time.
C26_TargetFollowsClock ==
    /\ [](cdPhase = "mounted" /\ cdEvalNow # NULL => nextDose = getNextDoseDate(cdEvalNow))
    /\ [][now' >= now]_vars
    /\ [][(CdTick \/ CdRunEffect) => nextDose' = getNextDoseDate(now')]_vars
    /\ [][(nextDose # NULL /\ cdPhase' = "mounted") =>
            /\ nextDose' >= nextDose
            /\ nextDose' # nextDose => nextDose' > nextDose]_vars

\* The case of C26 happens: ticks were missed across a whole dose instant, and
\* the evaluation that followed moved the target past the skipped dose.
C26_Witness ==
    /\ cdPhase = "mounted"
    /\ cdEvalNow # NULL
    /\ cdEvalTarget # NULL
    /\ cdEvalNow > getNextDoseDate(cdEvalTarget)
    /\ nextDose > getNextDoseDate(getNextDoseDate(cdEvalTarget))

\* C27: the dose-due indicator is displayed only when a target has been derived
\* and now is at or past that target; it is not displayed in the initial state
\* of the component, before the target is initialised from getNextDoseDate(now).
C27_DoseDueOnlyAtTarget ==
    (cdPhase \in {"rendered", "mounted"} /\ Rendered = DoseDueText) =>
        /\ nextDose # NULL
        /\ cdPhase # "rendered"
        /\ cdEvalTarget # NULL
        /\ cdEvalNow >= cdEvalTarget

\* C28: at most one interval is active, and the interval bound to a replaced
\* target is cleared before the interval of the new target starts, so no tick
\* evaluation computes the remaining time against a superseded target.
C28_NoTickOnSupersededTarget ==
    [][CdTick => cdInterval.target = nextDose]_vars

----------------------------------------------------------------------------
(* Claims about the banner staying hidden *)

\* C30: once the banner has been hidden, by a hide timer or by the analyze
\* button, it stays hidden until the next increment of the reminder-trigger
\* counter: the banner becomes visible only through the trigger effect, and at
\* the moment it is hidden no increment made earlier is left for that effect,
\* so only an increment made after the hiding can show the banner again.
C30_HiddenUntilNextIncrement ==
    /\ [][(bnPhase = "mounted" /\ ~showBanner /\ showBanner') =>
            reminderTrigger # bnSeenTrigger]_vars
    /\ [][(bnPhase = "mounted" /\ showBanner /\ ~showBanner') =>
            reminderTrigger' = bnSeenTrigger']_vars

\* C29: while PillRecognizer stays mounted and timers are fair, the banner is
\* hidden no later than 9 seconds after the later of the mount and the most
\* recent trigger increment: the mount and every handled increment arm a hide
\* timer due 9 seconds later, and a visible banner always has a pending hide
\* timer armed at or before the current instant.  When the increments stop, the
\* banner is eventually hidden and stays hidden.
C29_BannerEventuallyHidden ==
    /\ [][BnMount => bnInitTimer' = now + BannerDelay]_vars
    /\ [][(BannerTriggerEffect /\ reminderTrigger > 0) => bnTrigTimer' = now + BannerDelay]_vars
    /\ []((bnPhase = "mounted" /\ showBanner) =>
            /\ PendingHideTimers # {}
            /\ \A t \in PendingHideTimers : t <= now + BannerDelay)
    /\ <>[](bnPhase # "mounted" \/ ~showBanner)

\* The case of C29 happens: the component is mounted, a trigger increment has
\* been handled, every hide timer has run and the banner is hidden.
C29_Witness ==
    /\ bnPhase = "mounted"
    /\ ~showBanner
    /\ bnSeenTrigger > 0
    /\ reminderTrigger = bnSeenTrigger
    /\ triggerQueue = 0
    /\ PendingHideTimers = {}

----------------------------------------------------------------------------
(* Claims about the medication tracker *)

\* C23: a slot's button inverts that slot's taken flag and leaves the other two
\* as they were, so pressing the same slot twice in a row restores the state
\* before the two presses; check-all sets all three slots taken unless all
\* three already are, and then clears all three.
C23_TrackerToggles ==
    /\ Len(mtHistory) = Len(mtOps) + 1
    /\ takenDoses = mtHistory[Len(mtHistory)]
    /\ \A i \in 1 .. Len(mtOps) :
        LET before == mtHistory[i]
            after == mtHistory[i + 1]
        IN  /\ mtOps[i] \in Doses =>
                /\ after[mtOps[i]] = ~before[mtOps[i]]
                /\ \A d \in Doses \ {mtOps[i]} : after[d] = before[d]
            /\ mtOps[i] = "all" =>
                IF \A d \in Doses : before[d]
                THEN \A d \in Doses : ~after[d]
                ELSE \A d \in Doses : after[d]
            /\ (i > 1 /\ mtOps[i] \in Doses /\ mtOps[i - 1] = mtOps[i]) =>
                after = mtHistory[i - 1]

\* The case of C23 happens: with another slot taken, one slot was pressed twice,
\* then check-all filled the slots and a second check-all would clear them.
C23_Witness ==
    /\ mtOps = <<"noon", "morning", "morning", "all">>
    /\ mtHistory[2] = mtHistory[4]
    /\ mtHistory[3]["morning"] /\ mtHistory[3]["noon"]
    /\ \A d \in Doses : takenDoses[d]

----------------------------------------------------------------------------
(* Claims about the requests of PillRecognizer *)

\* The outstanding getFoodAlternatives calls made for the selected pill.
CurrentRequests == {request \in altRequests : request.pillName = selectedPill}

\* C31: whenever the dialog shows alternatives, they are the response to the
\* request made for the currently selected pill, and the loading flag is true
\* exactly while that request is outstanding, also when the dialog is closed
\* and opened for another pill before an earlier request has settled.
C31_DialogShowsCurrentRequest ==
    /\ (isModalOpen /\ detailedAlternatives # NoAlternatives) =>
        detailedAlternatives.pillName = selectedPill
    /\ isAlternativesLoading <=> CurrentRequests # {}

\* C32: when the recognition call fails, for whatever reason, handlePillRecognition
\* raises one generic error (one toast carrying its fixed message), pillInfo
\* stays null as reset at the start of the request, and the loading flag
\* returns to false; the loading flag is false after every completed
\* recognition, successful or failed.
C32_RecognitionFailureHandled ==
    [][\A file \in recRequests : \A outcome \in RecognitionOutcomes :
        RecognitionSettle(file, outcome) =>
            /\ ~isRecognitionLoading'
            /\ ~handlePillRecognition(file, outcome).ok =>
                /\ recToast' = RecognitionError
                /\ recToastCount' = recToastCount + 1
                /\ pillInfo' = NoPillInfo]_vars

====
